---- MODULE Spec2Model ----
(***************************************************************************)
(* A model of spaudiopy/utils.py: the shape validator (asarray_1d), the    *)
(* angle converters (deg2rad, rad2deg), cart2sph, stack and                *)
(* interleave_channels.                                                    *)
(*                                                                         *)
(* An ndarray is a record [dtype, shape, data]: shape is the tuple of      *)
(* dimension sizes and data the elements in C (row-major) order.  An       *)
(* element is an integer count of halves, so that 3 is stored as 6 and 3.5 *)
(* as 7; an array of dtype "int" holds even counts only.                   *)
(***************************************************************************)
EXTENDS Integers, Sequences, FiniteSets, TLC

VARIABLES pc, op, args, mem, result

vars == <<pc, op, args, mem, result>>

(***************************************************************************)
(* Bounds of the model.                                                    *)
(***************************************************************************)
\* Largest size of one dimension of an input array.
MaxDim == 3

\* Input arrays have 0 to 3 dimensions.
Ranks == 0..3

\* First element of an input array; the k-th element is Base + k.
Bases == {0, 10}

Dtypes == {"int", "float"}

(***************************************************************************)
(* ndarray basics.                                                         *)
(***************************************************************************)
RECURSIVE Size(_)
Size(shape) == IF shape = <<>> THEN 1 ELSE Head(shape) * Size(Tail(shape))

ndim(a) == Len(a.shape)

Abs(n) == IF n < 0 THEN -n ELSE n

\* The stored element for the number n (dtype "int") or n + 0.5 ("float").
Element(dtype, n) == IF dtype = "int" THEN 2 * n ELSE 2 * n + 1

\* C conversion of a stored element to dtype: float -> int truncates toward 0.
Cast(v, dtype) ==
    IF dtype = "int"
    THEN (IF v < 0 THEN -1 ELSE 1) * ((Abs(v) \div 2) * 2)
    ELSE v

\* Result dtype of combining two arrays (numpy type promotion).
Promote(d1, d2) == IF d1 = "float" \/ d2 = "float" THEN "float" ELSE "int"

Array(dtype, shape, base) ==
    [dtype |-> dtype, shape |-> shape,
     data |-> [k \in 1..Size(shape) |-> Element(dtype, base + k - 1)]]

ShapesOfRank(n) == [1..n -> 0..MaxDim]

Shapes == UNION {ShapesOfRank(n) : n \in Ranks}

Arrays(dtypes, shapes) ==
    {Array(d, s, b) : d \in dtypes, s \in shapes, b \in Bases}

\* The messages of the errors the functions raise themselves.
NotOneDimensional == "array must be one-dimensional"

NoCommonDimension == "vector_1 and vector_2 dont have a common dimension."

ShapeMismatch == "left_channel and right_channel have to be of same dimensions!"

NotSSR == "Provided arrays to have 360 channels (Nchannel x Nsamples)."

\* The messages of the errors numpy and Python raise.
ConcatenateMismatch ==
    "all the input array dimensions except for the concatenation axis must match exactly"

BroadcastMismatch == "operands could not be broadcast together"

TooManyIndices == "too many indices for array"

TooManyValues == "too many values to unpack"

Ok(v) == [status |-> "ok", value |-> v, error |-> "none"]

Error(e) == [status |-> "error", value |-> <<>>, error |-> e]

(***************************************************************************)
(* asarray_1d                                                              *)
(***************************************************************************)
RECURSIVE SqueezeShape(_)
SqueezeShape(shape) ==
    IF shape = <<>> THEN <<>>
    ELSE IF Head(shape) = 1 THEN SqueezeShape(Tail(shape))
    ELSE <<Head(shape)>> \o SqueezeShape(Tail(shape))

\* np.squeeze: drops every dimension of size 1, the elements stay in order.
np_squeeze(a) == [a EXCEPT !.shape = SqueezeShape(a.shape)]

\* asarray_1d without its check of the number of dimensions.
asarray_1d_Unchecked(a) ==
    LET squeezed == np_squeeze(a)
    IN  IF ndim(squeezed) = 0
        THEN Ok([squeezed EXCEPT !.shape = <<1>>])
        ELSE Ok(squeezed)

asarray_1d(a) ==
    LET squeezed == np_squeeze(a)
    IN  IF ndim(squeezed) = 0
        THEN Ok([squeezed EXCEPT !.shape = <<1>>])
        ELSE IF ndim(squeezed) > 1
        THEN Error(NotOneDimensional)
        ELSE Ok(squeezed)

(***************************************************************************)
(* deg2rad and rad2deg.  A float is modelled as a binary floating-point    *)
(* number of Prec significant bits whose smallest step is 2^-FracBits: it  *)
(* is stored as its integer count of that step, and every arithmetic       *)
(* operation rounds its exact result to the nearest such number, ties to   *)
(* even, as IEEE 754 arithmetic does.                                      *)
(***************************************************************************)
\* Significant bits of a float.
Prec == 10

\* The smallest step of a float is 2^-FracBits.
FracBits == 10

\* The stored count of the number 1.
One == 2 ^ FracBits

RECURSIVE Exponent(_, _, _)
\* The least k >= k0 for which a / (den * 2^k) has at most Prec bits.
Exponent(a, den, k0) ==
    IF a \div (den * 2 ^ k0) < 2 ^ Prec THEN k0 ELSE Exponent(a, den, k0 + 1)

\* The float nearest to the exact quotient num / den (den > 0).
fl(num, den) ==
    LET a == Abs(num)
        d == den * 2 ^ Exponent(a, den, 0)
        q == a \div d
        rem == a - q * d
        m == IF 2 * rem > d \/ (2 * rem = d /\ q % 2 = 1) THEN q + 1 ELSE q
    IN  (IF num < 0 THEN -1 ELSE 1) * m * (d \div den)

IsFloat(n) == fl(n, 1) = n

f_add(a, b) == fl(a + b, 1)

f_mul(a, b) == fl(a * b, One)

\* a / b for a divisor b > 0.
f_div(a, b) == fl(a * One, b)

\* C's fmod: exact, with the sign of a.
c_fmod(a, b) == (IF a < 0 THEN -1 ELSE 1) * (Abs(a) % Abs(b))

\* Python's and numpy's a % b on floats (b # 0): fmod, and when the remainder
\* is not zero and its sign differs from b's, b is added to it.
f_mod(a, b) ==
    LET mod == c_fmod(a, b)
    IN  IF mod # 0 /\ ((b < 0) # (mod < 0)) THEN f_add(mod, b) ELSE mod

\* np.pi: the float nearest to pi (355/113 agrees with pi to 7 digits).
np_pi == fl(355 * One, 113)

deg2rad(deg) == f_mul(f_div(f_mod(deg, 360 * One), 180 * One), np_pi)

rad2deg(rad) == f_mod(f_mul(f_div(rad, np_pi), 180 * One), 360 * One)

\* The largest count below One that stands for a tiny input.
MaxTiny == 4

Tiny == {s * t : s \in {-1, 1}, t \in 1..MaxTiny}

\* Inputs in degrees: whole degrees, tiny values, and the floats next to 360.
DegInputs ==
    {n \in {d * One : d \in {-720, -370, -360, -350, -180, -10, -1, 0, 1, 10,
                             90, 180, 350, 359, 360, 370, 720}}
           \cup Tiny \cup {s * (360 * One + t) : s \in {-1, 1}, t \in -One..One} :
        IsFloat(n)}

\* Inputs in radians: the multiples of pi/4 from -2 pi to 2 pi, whole radians
\* and tiny values.
RadInputs ==
    {fl(k * np_pi, 4) : k \in -8..8} \cup {r * One : r \in -6..6} \cup Tiny

(***************************************************************************)
(* cart2sph.  The elements of its results are terms: sqrt, arctan2, arccos *)
(* and the division are not evaluated.                                     *)
(***************************************************************************)
\* The length two one-dimensional operands of lengths n and m broadcast to,
\* -1 when they do not.
Broadcast(n, m) ==
    IF n = m THEN n ELSE IF n = 1 THEN m ELSE IF m = 1 THEN n ELSE -1

\* The i-th element of a broadcast to a longer operand.
Pick(a, i) == IF a.shape[1] = 1 THEN a.data[1] ELSE a.data[i]

\* The element a binary operation gives for the elements u and v.
Apply(f, u, v) ==
    CASE f = "add" -> u + v
      [] f = "arctan2" -> <<"arctan2", u, v>>
      [] f = "arccos_divide" -> <<"arccos", <<"div", u, v>>>>

\* The dtype a binary operation gives: the sum of two arrays has their
\* promoted dtype, np.arctan2 and the true division always give floats.
ResultDtype(f, d1, d2) == IF f = "add" THEN Promote(d1, d2) ELSE "float"

\* An elementwise binary operation on two one-dimensional arrays.
Elementwise(f, a, b) ==
    LET n == Broadcast(a.shape[1], b.shape[1])
    IN  IF n = -1
        THEN Error(BroadcastMismatch)
        ELSE Ok([dtype |-> ResultDtype(f, a.dtype, b.dtype), shape |-> <<n>>,
                 data |-> [i \in 1..n |-> Apply(f, Pick(a, i), Pick(b, i))]])

\* a**2: the dtype is kept.  The square of a count of halves is a count of
\* quarters, and so are the sums of squares.
Square(a) == [a EXCEPT !.data = [i \in 1..Len(a.data) |-> a.data[i] * a.data[i]]]

\* np.sqrt: a float array, also for an integer argument.
np_sqrt(a) ==
    [dtype |-> "float", shape |-> a.shape,
     data |-> [i \in 1..Len(a.data) |-> <<"sqrt", a.data[i]>>]]

\* np.clip(r, 10e-15, None)
np_clip(a) ==
    [dtype |-> "float", shape |-> a.shape,
     data |-> [i \in 1..Len(a.data) |-> <<"clip", a.data[i]>>]]

cart2sph(x0, y0, z0, steady_colat) ==
    LET x == asarray_1d(x0)
        y == asarray_1d(y0)
        z == asarray_1d(z0)
    IN  IF x.status = "error" THEN x
        ELSE IF y.status = "error" THEN y
        ELSE IF z.status = "error" THEN z
        ELSE LET xy == Elementwise("add", Square(x.value), Square(y.value))
             IN  IF xy.status = "error" THEN xy
                 ELSE LET xyz == Elementwise("add", xy.value, Square(z.value))
                      IN  IF xyz.status = "error" THEN xyz
                          ELSE LET r == np_sqrt(xyz.value)
                                   azi == Elementwise("arctan2", y.value, x.value)
                                   colat == Elementwise("arccos_divide", z.value,
                                               IF steady_colat THEN np_clip(r) ELSE r)
                               IN  Ok(<<azi.value, colat.value, r>>)

\* The shapes of the arrays handed to cart2sph.
PointShapes ==
    {<<>>, <<0>>, <<1>>, <<2>>, <<3>>, <<1, 1>>, <<1, 2>>, <<3, 1>>, <<2, 2>>,
     <<1, 0>>}

(***************************************************************************)
(* stack                                                                   *)
(***************************************************************************)
\* np.atleast_2d: a scalar becomes 1 x 1, a vector of n becomes 1 x n.
np_atleast_2d(a) ==
    IF ndim(a) = 0 THEN [a EXCEPT !.shape = <<1, 1>>]
    ELSE IF ndim(a) = 1 THEN [a EXCEPT !.shape = <<1, a.shape[1]>>]
    ELSE a

\* np.vstack joining the rows whatever the column counts.
np_vstack_Unchecked(a, b) ==
    Ok([dtype |-> Promote(a.dtype, b.dtype),
        shape |-> <<a.shape[1] + b.shape[1], a.shape[2]>>,
        data |-> a.data \o b.data])

\* np.vstack of two 2-D arrays: b's rows follow a's rows; the column counts
\* must agree.
np_vstack(a, b) ==
    IF a.shape[2] # b.shape[2]
    THEN Error(ConcatenateMismatch)
    ELSE Ok([dtype |-> Promote(a.dtype, b.dtype),
             shape |-> <<a.shape[1] + b.shape[1], a.shape[2]>>,
             data |-> [k \in 1..(Len(a.data) + Len(b.data)) |->
                         IF k <= Len(a.data) THEN a.data[k]
                         ELSE b.data[k - Len(a.data)]]])

\* np.hstack of two 2-D arrays: each row of b follows the same row of a; the
\* row counts must agree.
np_hstack(a, b) ==
    IF a.shape[1] # b.shape[1]
    THEN Error(ConcatenateMismatch)
    ELSE LET M == a.shape[1]
             Na == a.shape[2]
             Nb == b.shape[2]
         IN  Ok([dtype |-> Promote(a.dtype, b.dtype),
                 shape |-> <<M, Na + Nb>>,
                 data |-> [k \in 1..(M * (Na + Nb)) |->
                             LET i == (k - 1) \div (Na + Nb)
                                 j == (k - 1) % (Na + Nb)
                             IN  IF j < Na THEN a.data[i * Na + j + 1]
                                 ELSE b.data[i * Nb + (j - Na) + 1]]])

\* The first condition without its test of the smaller dimension.
StackRows_SameOnly(M1, N1, M2, N2) == M1 = M2

\* The first condition with <= for <.
StackRows_OrEqual(M1, N1, M2, N2) == M1 = M2 /\ (M1 <= N1 \/ M2 <= N2)

\* The second condition without its test of the shared dimension.
StackCols_SmallerOnly(M1, N1, M2, N2) == N1 < M1 \/ N2 < M2

\* The two conditions of the if / elif.
StackRows(M1, N1, M2, N2) == M1 = M2 /\ (M1 < N1 \/ M2 < N2)

StackCols(M1, N1, M2, N2) == N1 = N2 /\ (N1 < M1 \/ N2 < M2)

stack(vector_1, vector_2) ==
    LET v1 == np_atleast_2d(vector_1)
        v2 == np_atleast_2d(vector_2)
    IN  IF ndim(v1) # 2 \/ ndim(v2) # 2
        THEN Error(TooManyValues)
        ELSE LET M1 == v1.shape[1]
                 N1 == v1.shape[2]
                 M2 == v2.shape[1]
                 N2 == v2.shape[2]
                 out == IF StackRows(M1, N1, M2, N2) THEN np_vstack(v1, v2)
                        ELSE IF StackCols(M1, N1, M2, N2) THEN np_hstack(v1, v2)
                        ELSE Error(NoCommonDimension)
             IN  IF out.status = "ok" THEN Ok(np_squeeze(out.value)) ELSE out

(***************************************************************************)
(* interleave_channels.  The arrays live in a heap, mem, that maps a       *)
(* reference to an ndarray: the caller's arrays are "left" and "right",    *)
(* and an array the function builds gets a reference of its own.           *)
(***************************************************************************)
\* The row count the 'SSR' style asks for.
SSRChannels == 360

Styles == {"None", "SSR", "ssr"}

Store(heap, ref, a) ==
    [r \in (DOMAIN heap) \cup {ref} |-> IF r = ref THEN a ELSE heap[r]]

\* np.repeat handing back its input array instead of a new one.
RepeatRef_Alias(ref) == ref

\* The reference np.repeat gives its result: a new array, never its input.
RepeatRef(ref) == "out"

\* np.repeat(a, 2, axis=0): every entry along the first axis, twice in a row.
np_repeat(a) ==
    LET blk == Size(Tail(a.shape))
    IN  [dtype |-> a.dtype,
         shape |-> <<2 * a.shape[1]>> \o Tail(a.shape),
         data |-> [k \in 1..(2 * Len(a.data)) |->
                     LET row == (k - 1) \div blk
                         off == (k - 1) % blk
                     IN  a.data[(row \div 2) * blk + off + 1]]]

\* output_data[1::2, :] = right_channel on a 2-D output: the rows 1, 3, 5, ...
\* take right_channel's rows 0, 1, 2, ..., converted to the output's dtype.
setitem_odd_rows(out, right) ==
    LET S == out.shape[2]
    IN  [out EXCEPT !.data =
            [k \in 1..Len(out.data) |->
                LET row == (k - 1) \div S
                    col == (k - 1) % S
                IN  IF row % 2 = 1
                    THEN Cast(right.data[(row \div 2) * S + col + 1], out.dtype)
                    ELSE out.data[k]]]

\* interleave_channels making the SSR check before the shape check.
interleave_channels_SSRFirst(heap, left_channel, right_channel, style) ==
    LET left == heap[left_channel]
        right == heap[right_channel]
    IN  IF style = "SSR" /\ left.shape[1] # SSRChannels
        THEN [mem |-> heap,
              result |-> Error(NotSSR)]
        ELSE IF left.shape # right.shape
        THEN [mem |-> heap,
              result |-> Error(ShapeMismatch)]
        ELSE LET heap1 == Store(heap, "out", np_repeat(left))
             IN  IF ndim(heap1["out"]) < 2
                 THEN [mem |-> heap1,
                       result |-> Error(TooManyIndices)]
                 ELSE [mem |-> Store(heap1, "out",
                                     setitem_odd_rows(heap1["out"], right)),
                       result |-> Ok("out")]

\* The heap and the outcome of interleave_channels(left, right, style), the
\* arguments given as references into heap.
interleave_channels(heap, left_channel, right_channel, style) ==
    LET left == heap[left_channel]
        right == heap[right_channel]
    IN  IF left.shape # right.shape
        THEN [mem |-> heap,
              result |-> Error(ShapeMismatch)]
        ELSE IF style = "SSR" /\ left.shape[1] # SSRChannels
        THEN [mem |-> heap,
              result |-> Error(NotSSR)]
        ELSE LET output_data == RepeatRef(left_channel)
                 heap1 == Store(heap, output_data, np_repeat(left))
             IN  IF ndim(heap1[output_data]) < 2
                 THEN [mem |-> heap1,
                       result |-> Error(TooManyIndices)]
                 ELSE [mem |-> Store(heap1, output_data,
                                     setitem_odd_rows(heap1[output_data], right)),
                       result |-> Ok(output_data)]

\* The shapes of the arrays handed to interleave_channels: vectors and
\* matrices up to MaxDim x MaxDim, and matrices of SSRChannels rows.
ChannelShapes ==
    ShapesOfRank(1) \cup ShapesOfRank(2)
        \cup {<<SSRChannels, s>> : s \in 0..1} \cup {<<SSRChannels>>}

(***************************************************************************)
(* Operations.                                                             *)
(***************************************************************************)
NoMem == <<>>

Init ==
    /\ pc = "idle"
    /\ op = "none"
    /\ args = <<>>
    /\ mem = NoMem
    /\ result = Error("not called")

CallAsarray1d ==
    /\ pc = "idle"
    /\ \E a \in Arrays(Dtypes, Shapes) :
        /\ args' = <<a>>
        /\ result' = asarray_1d(a)
    /\ op' = "asarray_1d"
    /\ mem' = NoMem
    /\ pc' = "done"

CallStack ==
    /\ pc = "idle"
    /\ \E v1 \in Arrays(Dtypes, Shapes), v2 \in Arrays(Dtypes, Shapes) :
        /\ args' = <<v1, v2>>
        /\ result' = stack(v1, v2)
    /\ op' = "stack"
    /\ mem' = NoMem
    /\ pc' = "done"

CallInterleave ==
    /\ pc = "idle"
    /\ \E left \in Arrays(Dtypes, ChannelShapes),
          right \in Arrays(Dtypes, ChannelShapes), style \in Styles :
        LET heap == [r \in {"left", "right"} |->
                        IF r = "left" THEN left ELSE right]
            call == interleave_channels(heap, "left", "right", style)
        IN  /\ args' = <<left, right, style>>
            /\ mem' = call.mem
            /\ result' = call.result
    /\ op' = "interleave_channels"
    /\ pc' = "done"

CallDeg2Rad ==
    /\ pc = "idle"
    /\ \E deg \in DegInputs :
        /\ args' = <<deg>>
        /\ result' = Ok(deg2rad(deg))
    /\ op' = "deg2rad"
    /\ mem' = NoMem
    /\ pc' = "done"

CallRad2Deg ==
    /\ pc = "idle"
    /\ \E rad \in RadInputs :
        /\ args' = <<rad>>
        /\ result' = Ok(rad2deg(rad))
    /\ op' = "rad2deg"
    /\ mem' = NoMem
    /\ pc' = "done"

CallCart2Sph ==
    /\ pc = "idle"
    /\ \E x \in Arrays({"int"}, PointShapes), y \in Arrays({"int"}, PointShapes),
          z \in Arrays({"int"}, PointShapes), steady_colat \in BOOLEAN :
        /\ args' = <<x, y, z, steady_colat>>
        /\ result' = cart2sph(x, y, z, steady_colat)
    /\ op' = "cart2sph"
    /\ mem' = NoMem
    /\ pc' = "done"

Return ==
    /\ pc = "done"
    /\ pc' = "idle"
    /\ op' = "none"
    /\ args' = <<>>
    /\ mem' = NoMem
    /\ result' = Error("not called")

Next ==
    \/ CallAsarray1d
    \/ CallStack
    \/ CallInterleave
    \/ CallDeg2Rad
    \/ CallRad2Deg
    \/ CallCart2Sph
    \/ Return

Spec == Init /\ [][Next]_vars

(***************************************************************************)
(* Properties.                                                             *)
(***************************************************************************)
Called(name) == pc = "done" /\ op = name

\* Row i (from 0) of a matrix.
Row(a, i) == SubSeq(a.data, i * a.shape[2] + 1, (i + 1) * a.shape[2])

\* The dimensions of a shape that are not 1, in order.
NotOne(shape) == SelectSeq(shape, LAMBDA d : d # 1)

\* The shapes stack works on: those of its arguments made at least 2-D.
Shape1 == np_atleast_2d(args[1]).shape

Shape2 == np_atleast_2d(args[2]).shape

\* Both arguments of stack are, once at least 2-D, matrices.
StackedMatrices == Called("stack") /\ Len(Shape1) = 2 /\ Len(Shape2) = 2

\* C1: with no style and two matrices of one shape N x S, interleave_channels
\* returns a 2N x S matrix whose row 2i is row i of left and whose row 2i+1
\* is row i of right.
C1_Interleaved ==
    (/\ Called("interleave_channels")
     /\ args[3] = "None"
     /\ ndim(args[1]) = 2
     /\ args[1].shape = args[2].shape)
    => /\ result.status = "ok"
       /\ LET out == mem[result.value]
              N == args[1].shape[1]
          IN  /\ out.shape = <<2 * N, args[1].shape[2]>>
              /\ \A i \in 0..(N - 1) :
                    /\ Row(out, 2 * i) = Row(args[1], i)
                    /\ Row(out, 2 * i + 1) = Row(args[2], i)

\* C2: asarray_1d drops every dimension of size 1; with no dimension left it
\* returns the one value as a sequence of length 1, with one dimension left
\* the elements in order as a one-dimensional sequence, and with more it fails
\* with 'array must be one-dimensional'.  Every result has one dimension.
C2_ShapeValidator ==
    Called("asarray_1d") =>
        LET a == args[1]
            kept == NotOne(a.shape)
        IN  /\ Len(kept) = 0 =>
                /\ result.status = "ok"
                /\ result.value.shape = <<1>>
                /\ result.value.data = <<a.data[1]>>
            /\ Len(kept) = 1 =>
                /\ result.status = "ok"
                /\ result.value.shape = kept
                /\ result.value.data = a.data
            /\ Len(kept) > 1 =>
                /\ result.status = "error"
                /\ result.error = NotOneDimensional
            /\ result.status = "ok" => Len(result.value.shape) = 1

\* A 2 x 2 input was refused.
C2_Witness ==
    /\ Called("asarray_1d")
    /\ args[1].shape = <<2, 2>>
    /\ result.status = "error"

\* C3 as stated: when the first dimensions agree and are the smaller one of
\* each array, stack returns the row-wise concatenation; otherwise, when the
\* second dimensions agree and are the smaller one of each array, it returns
\* the column-wise concatenation (stated for arrays without a dimension of
\* size 0, where the final squeeze drops nothing).
C3_Original ==
    (StackedMatrices /\ \A i \in 1..2 : Shape1[i] >= 1 /\ Shape2[i] >= 1) =>
        LET M1 == Shape1[1]
            N1 == Shape1[2]
            M2 == Shape2[1]
            N2 == Shape2[2]
        IN  IF M1 = M2 /\ M1 < N1 /\ M2 < N2
            THEN /\ result.status = "ok"
                 /\ result.value.shape = <<M1 + M2, N1>>
                 /\ result.value.data = args[1].data \o args[2].data
            ELSE (N1 = N2 /\ N1 < M1 /\ N2 < M2) =>
                 /\ result.status = "ok"
                 /\ result.value.shape = <<M1, N1 + N2>>
                 /\ \A i \in 0..(M1 - 1) :
                        SubSeq(result.value.data, i * (N1 + N2) + 1, (i + 1) * (N1 + N2))
                            = SubSeq(args[1].data, i * N1 + 1, (i + 1) * N1)
                                \o SubSeq(args[2].data, i * N2 + 1, (i + 1) * N2)

\* C3 amended: in either case the concatenation is returned only when the
\* other dimension agrees too (a result dimension of size 1, which only 0 x 1
\* and 1 x 0 results have, is dropped); when the other dimension differs,
\* stack fails.
C3_Amended ==
    StackedMatrices =>
        LET M1 == Shape1[1]
            N1 == Shape1[2]
            M2 == Shape2[1]
            N2 == Shape2[2]
        IN  IF M1 = M2 /\ M1 < N1 /\ M2 < N2
            THEN IF N1 = N2
                 THEN /\ result.status = "ok"
                      /\ result.value.shape = NotOne(<<M1 + M2, N1>>)
                      /\ result.value.data = args[1].data \o args[2].data
                 ELSE result.status = "error"
            ELSE (N1 = N2 /\ N1 < M1 /\ N2 < M2) =>
                 IF M1 = M2
                 THEN /\ result.status = "ok"
                      /\ result.value.shape = NotOne(<<M1, N1 + N2>>)
                      /\ \A i \in 0..(M1 - 1) :
                            SubSeq(result.value.data, i * (N1 + N2) + 1, (i + 1) * (N1 + N2))
                                = SubSeq(args[1].data, i * N1 + 1, (i + 1) * N1)
                                    \o SubSeq(args[2].data, i * N2 + 1, (i + 1) * N2)
                 ELSE result.status = "error"

\* Two 3 x 1 columns were joined into a 3 x 2 matrix.
C3_Witness ==
    /\ Called("stack")
    /\ args[1].shape = <<3, 1>>
    /\ args[2].shape = <<3, 1>>
    /\ args[1].data # args[2].data
    /\ result.status = "ok"
    /\ result.value.shape = <<3, 2>>

\* C4 as stated: two square matrices of one size are stacked vertically, into
\* a 2M x M matrix, and no error is raised.
C4_Original ==
    (/\ StackedMatrices
     /\ ndim(args[1]) = 2 /\ ndim(args[2]) = 2
     /\ Shape1 = Shape2 /\ Shape1[1] = Shape1[2] /\ Shape1[1] >= 1) =>
        /\ result.status = "ok"
        /\ result.value.shape = <<2 * Shape1[1], Shape1[2]>>
        /\ result.value.data = args[1].data \o args[2].data

\* C4 amended: for two square matrices of one size neither condition holds,
\* and stack fails with the 'no common dimension' error.
C4_Amended ==
    (StackedMatrices /\ Shape1 = Shape2 /\ Shape1[1] = Shape1[2]) =>
        /\ result.status = "error"
        /\ result.error = NoCommonDimension

\* Two 2 x 2 matrices were refused.
C4_Witness ==
    /\ Called("stack")
    /\ args[1].shape = <<2, 2>>
    /\ args[2].shape = <<2, 2>>
    /\ result.status = "error"

\* C5: when the two shapes share no dimension (M1 # M2 and N1 # N2), stack
\* fails with the 'no common dimension' error and returns nothing.
C5_NoCommonDimension ==
    (StackedMatrices /\ Shape1[1] # Shape2[1] /\ Shape1[2] # Shape2[2]) =>
        /\ result.status = "error"
        /\ result.error = NoCommonDimension

\* A 2 x 1 and a 3 x 2 matrix were refused.
C5_Witness ==
    /\ Called("stack")
    /\ args[1].shape = <<2, 1>>
    /\ args[2].shape = <<3, 2>>
    /\ result.status = "error"

\* C6: interleave_channels fails with the shape error whenever the shapes
\* differ, whatever the style, also when the SSR check would fail too; with
\* equal shapes and style "SSR" it fails when left has not 360 rows; with
\* equal shapes and another style two matrices of any row count succeed.
C6_InterleaveErrors ==
    Called("interleave_channels") =>
        LET left == args[1]
            right == args[2]
            style == args[3]
        IN  /\ left.shape # right.shape =>
                /\ result.status = "error"
                /\ result.error = ShapeMismatch
            /\ (left.shape = right.shape /\ style = "SSR"
                    /\ left.shape[1] # SSRChannels) =>
                /\ result.status = "error"
                /\ result.error = NotSSR
            /\ (left.shape = right.shape /\ style # "SSR" /\ ndim(left) = 2) =>
                result.status = "ok"

\* A call with style "SSR" whose arguments differ in shape and have not 360
\* rows was refused for the shapes.
C6_Witness ==
    /\ Called("interleave_channels")
    /\ args[3] = "SSR"
    /\ args[1].shape = <<2, 3>>
    /\ args[2].shape = <<3, 3>>
    /\ result.error = ShapeMismatch

\* C7: deg2rad reduces its input into [0, 360) and returns a value in
\* [0, 2 pi); rad2deg returns a value in [0, 360); deg2rad(-10) is
\* deg2rad(350) and a multiple of 360 degrees gives 0.  (2 pi is bounded by
\* 710/113, which is just above it.)
C7_Ranges ==
    /\ Called("deg2rad") =>
        /\ 0 <= f_mod(args[1], 360 * One) /\ f_mod(args[1], 360 * One) < 360 * One
        /\ 0 <= result.value /\ result.value * 113 < 710 * One
        /\ args[1] = -10 * One => result.value = deg2rad(350 * One)
        /\ args[1] % (360 * One) = 0 => result.value = 0
    /\ Called("rad2deg") =>
        /\ 0 <= result.value /\ result.value < 360 * One

\* C8: the three sequences cart2sph returns for inputs that are not empty
\* have one length, which is also the length of every input that is not a
\* single value.
C8_SameLength ==
    (/\ Called("cart2sph")
     /\ result.status = "ok"
     /\ \A j \in 1..3 : Size(args[j].shape) >= 1) =>
        \A i \in 1..3 : \A j \in 1..3 :
            /\ result.value[i].shape = result.value[j].shape
            /\ Size(args[j].shape) \in {1, result.value[i].shape[1]}

\* C9: interleave_channels leaves left and right as they were, whether it
\* succeeds or fails, and its result is an array of its own.
C9_InputsUnchanged ==
    Called("interleave_channels") =>
        /\ mem["left"] = args[1]
        /\ mem["right"] = args[2]
        /\ result.status = "ok" => result.value \notin {"left", "right"}

\* A call succeeded and wrote rows of right, which differ from left's, into
\* its result.
C9_Witness ==
    /\ Called("interleave_channels")
    /\ result.status = "ok"
    /\ args[1].shape = <<2, 3>>
    /\ Row(mem[result.value], 1) = Row(args[2], 0)
    /\ Row(args[2], 0) # Row(args[1], 0)

\* C10: for two-dimensional inputs with all dimensions >= 1, stack returns a
\* result exactly when the two shapes are the same and not square; the result
\* is 2M x N when M < N and M x 2N when N < M; every other pair fails.
C10_IdenticalNonSquare ==
    (/\ Called("stack")
     /\ ndim(args[1]) = 2 /\ ndim(args[2]) = 2
     /\ \A i \in 1..2 : args[1].shape[i] >= 1 /\ args[2].shape[i] >= 1)
    => LET M == args[1].shape[1]
           N == args[1].shape[2]
       IN  IF args[1].shape = args[2].shape /\ M # N
           THEN /\ result.status = "ok"
                /\ result.value.shape = IF M < N THEN <<2 * M, N>> ELSE <<M, 2 * N>>
           ELSE result.status = "error"

\* A 1 x 2 and a 1 x 3 matrix, which share their first dimension only, were
\* refused.
C10_Witness ==
    /\ Called("stack")
    /\ args[1].shape = <<1, 2>>
    /\ args[2].shape = <<1, 3>>
    /\ result.status = "error"

====
